---- MODULE Spec2Model ----
(***************************************************************************)
(* Model of dmss/dataset.py: PolypDataset (a CSV-backed sample index) and  *)
(* get_data_loaders (80/10/10 positional split, three DataLoaders).        *)
(*                                                                         *)
(* A sample is identified by its manifest row; a tensor value is a         *)
(* rational <<numerator, denominator>>.                                    *)
(***************************************************************************)
EXTENDS Integers, Sequences, FiniteSets, TLC

\* ---------------------------------------------------------------- bounds
MaxRows == 19          \* largest manifest when workers and missing files are explored
MaxShuffleRows == 6    \* largest manifest when shuffled passes are explored
MaxSeqRows == 100      \* largest manifest when only sequential passes are explored
MaxBatch == 2          \* largest batch_size beside workers
MaxSeqBatch == 4       \* largest batch_size of the sequential passes
MaxWorkers == 2        \* largest num_workers
MaxPasses == 2         \* passes started per session
MaxMissing == 1        \* rows of a manifest whose files are absent
MaxItemRows == 2       \* largest manifest when tensor values are explored

\* ------------------------------------------------------- program constants
PrefetchFactor == 2    \* DataLoader default prefetch_factor with workers
MaxPixel == 255        \* the 8-bit maximum the arrays are divided by

VARIABLES
    manifest,        \* what annotations_path holds: "ok" | "onecol" | "missing" | "empty"
    nrows,           \* data rows of the manifest
    files,           \* row -> "both" | "noimg" | "nomask": what exists on disk
    batch_size,      \* get_data_loaders argument
    num_workers,     \* get_data_loaders argument
    img_tf,          \* PolypDataset.img_tf: "None" | "Identity" | "Normalize"
    mask_tf,         \* PolypDataset.mask_tf
    img_file,        \* the decoded image file: one pixel <<b, g, r>>
    msk_file,        \* the decoded mask file: one grayscale pixel
    pc,              \* get_data_loaders: "start" | "returned" | "raised"
    err,             \* exception raised by get_data_loaders, [type, what]
    size_dataset,    \* local of get_data_loaders (-1: not assigned)
    split1,
    split2,
    train_indices,
    val_indices,
    test_indices,
    part,            \* partition of the iterator in use: "none" | "train" | "valid" | "test"
    itstate,         \* "idle" | "running" | "done" | "raised"
    iterr,           \* exception raised to the caller of the iterator
    order,           \* positions of the view, in the sampler's order for this pass
    send_idx,        \* batches taken from the batch sampler
    rcvd_idx,        \* batches handed to the caller (or raised)
    tasks_outstanding,
    index_queues,    \* worker -> batch numbers waiting for that worker
    data_queue,      \* results in the order the workers finished them
    task_info,       \* results taken from data_queue ahead of their turn
    out,             \* batches yielded by the pass in progress
    passes,          \* passes started
    gets,            \* row -> calls of PolypDataset.__getitem__ in this pass
    sample           \* result of a direct dataset[index] call

vars == <<manifest, nrows, files, batch_size, num_workers, img_tf, mask_tf,
          img_file, msk_file, pc, err, size_dataset, split1, split2,
          train_indices, val_indices, test_indices, part, itstate, iterr,
          order, send_idx, rcvd_idx, tasks_outstanding, index_queues,
          data_queue, task_info, out, passes, gets, sample>>

inputs == <<manifest, nrows, files, batch_size, num_workers, img_tf, mask_tf,
            img_file, msk_file>>
locals == <<size_dataset, split1, split2, train_indices, val_indices, test_indices>>
itvars == <<part, itstate, iterr, order, send_idx, rcvd_idx, tasks_outstanding,
            index_queues, data_queue, task_info, out, passes>>

Parts == {"train", "valid", "test"}
NoErr == [type |-> "none", what |-> "none"]
Exc(t, w) == [type |-> t, what |-> w]
NoSample == [ok |-> FALSE, err |-> NoErr, image |-> <<>>, mask |-> <<>>]

Min(a, b) == IF a < b THEN a ELSE b

\* ------------------------------------------------------------ the manifest
\* pd.read_csv(annotations_file): the first line is the header.
read_csv(m, n) ==
    CASE m = "missing" -> [ok |-> FALSE, err |-> Exc("FileNotFoundError", "annotations_file"),
                           ncols |-> 0, len |-> 0]
      [] m = "empty"   -> [ok |-> FALSE, err |-> Exc("EmptyDataError", "annotations_file"),
                           ncols |-> 0, len |-> 0]
      [] m = "onecol"  -> [ok |-> TRUE, err |-> NoErr, ncols |-> 1, len |-> n]
      [] OTHER         -> [ok |-> TRUE, err |-> NoErr, ncols |-> 2, len |-> n]

\* PolypDataset.__init__: reads the manifest and nothing else.
PolypDatasetInit(m, n) == read_csv(m, n)

\* PolypDataset.__len__
DatasetLen(ds) == ds.len

\* ---------------------------------------------------------------- the split
\* int(0.8 * n), int(0.9 * n): the double product truncated; it equals the
\* integer quotient for every n below 2 * 10^6.
Split1(n) == (8 * n) \div 10
Split2(n) == (9 * n) \div 10

\* list(range(n))
Range(n) == [i \in 1..n |-> i - 1]

\* Python slice s[lo:hi] with 0 <= lo, hi <= len(s)
Slice(s, lo, hi) == IF hi <= lo THEN <<>> ELSE SubSeq(s, lo + 1, hi)

\* Variants of the slices with a plausible slip: an off-by-one start, the
\* wrong cut-off.
ValSliceSkipsFirst(indices, s1, s2) == Slice(indices, s1 + 1, s2)
TrainSliceToSplit2(indices, s1, s2) == Slice(indices, 0, s2)

TrainSlice(indices, s1, s2) == Slice(indices, 0, s1)
ValSlice(indices, s1, s2) == Slice(indices, s1, s2)
TestSlice(indices, s1, s2) == Slice(indices, s2, Len(indices))

\* ------------------------------------------------------------- DataLoader
\* shuffle argument of each DataLoader call
Shuffle(p) == p = "train"

\* DataLoader.__init__(dataset of length n, batch_size, shuffle, num_workers):
\* the exception it raises, or NoErr.
DataLoaderInit(n, b, shuffle, w) ==
    IF w < 0 THEN Exc("ValueError", "num_workers")
    ELSE IF shuffle /\ n <= 0 THEN Exc("ValueError", "num_samples")
    ELSE IF b <= 0 THEN Exc("ValueError", "batch_size")
    ELSE NoErr

\* The first exception of the three DataLoader constructions, in call order.
LoadersInit(nt, nv, ns, b, w) ==
    LET et == DataLoaderInit(nt, b, Shuffle("train"), w)
        ev == DataLoaderInit(nv, b, Shuffle("valid"), w)
        es == DataLoaderInit(ns, b, Shuffle("test"), w)
    IN  IF et # NoErr THEN et ELSE IF ev # NoErr THEN ev ELSE es

\* ------------------------------------------------------- get_data_loaders
get_data_loaders ==
    /\ pc = "start"
    /\ LET ds == PolypDatasetInit(manifest, nrows)
       IN IF ~ds.ok
          THEN /\ pc' = "raised"
               /\ err' = ds.err
               /\ UNCHANGED locals
          ELSE LET n == DatasetLen(ds)
                   indices == Range(n)
                   s1 == Split1(n)
                   s2 == Split2(n)
                   tr == TrainSlice(indices, s1, s2)
                   va == ValSlice(indices, s1, s2)
                   te == TestSlice(indices, s1, s2)
                   e == LoadersInit(Len(tr), Len(va), Len(te), batch_size, num_workers)
               IN /\ size_dataset' = n
                  /\ split1' = s1
                  /\ split2' = s2
                  /\ train_indices' = tr
                  /\ val_indices' = va
                  /\ test_indices' = te
                  /\ err' = e
                  /\ pc' = IF e = NoErr THEN "returned" ELSE "raised"
    /\ UNCHANGED <<inputs, itvars, gets, sample>>

\* ------------------------------------------------------------ __getitem__
\* _get_item_from_csv up to the existence checks: the exception raised for
\* row `index` of dataset ds on filesystem fs, or NoErr.
ItemError(ds, fs, index) ==
    IF ds.ncols < 2 THEN Exc("IndexError", "column")
    ELSE IF fs[index] \in {"noimg", "neither"} THEN Exc("FileNotFoundError", "image")
    ELSE IF fs[index] = "nomask" THEN Exc("FileNotFoundError", "mask")
    ELSE NoErr

\* cv.cvtColor(image, cv.COLOR_BGR2RGB) on one pixel
BGR2RGB(px) == <<px[3], px[2], px[1]>>

\* .float() / 255.0: the value v / 255 as <<numerator, denominator>>
ToFloat(v) == <<v, MaxPixel>>

\* A caller's transform applied to one value x = <<n, d>>; "Normalize" is a
\* caller-supplied v2.Normalize(mean = 0.5, std = 0.5), (x - 1/2) / (1/2).
ApplyTransform(tf, x) ==
    CASE tf = "Normalize" -> <<2 * x[1] - x[2], x[2]>>
      [] OTHER            -> x

\* self.image_normalize: v2.Normalize(mean = [0.485, 0.456, 0.406],
\* std = [0.229, 0.224, 0.225]) on channel c of x = <<n, d>>:
\* (n/d - m/1000) / (s/1000) = (1000 n - m d) / (s d).
ImageMean == <<485, 456, 406>>
ImageStd == <<229, 224, 225>>
image_normalize(c, x) == <<1000 * x[1] - ImageMean[c] * x[2], ImageStd[c] * x[2]>>

\* self.mask_normalize: v2.Normalize(mean = [0.5], std = [0.5])
mask_normalize(x) == <<2 * x[1] - x[2], x[2]>>

\* _get_item_from_csv after the existence checks: the (image, mask) pair.
\* Neither image_normalize nor mask_normalize is called.
ItemValue(px, m, itf, mtf) ==
    LET rgb == BGR2RGB(px)
        image == [c \in 1..3 |-> ToFloat(rgb[c])]
        mask == <<ToFloat(m)>>
    IN  [image |-> IF itf # "None" THEN [c \in 1..3 |-> ApplyTransform(itf, image[c])]
                   ELSE image,
         mask |-> IF mtf # "None" THEN <<ApplyTransform(mtf, mask[1])>> ELSE mask]

\* --------------------------------------------------------------- iteration
\* Variant: the valid loader built over test_dataset.
IndicesValidOverTest(p) ==
    CASE p = "train" -> train_indices
      [] OTHER       -> test_indices

\* The view each loader was built over.
Indices(p) ==
    CASE p = "train" -> train_indices
      [] p = "valid" -> val_indices
      [] OTHER       -> test_indices

\* Subset.__getitem__(j): the row behind position j of a view
SubsetGet(ind, j) == ind[j + 1]

\* torch.randperm(n).tolist(): every permutation of 0..n-1
RECURSIVE PermsOf(_)
PermsOf(S) ==
    IF S = {} THEN {<<>>}
    ELSE UNION {{<<x>> \o q : q \in PermsOf(S \ {x})} : x \in S}
Perms(n) == PermsOf(0..(n - 1))

\* The orders a sampler over n positions may produce in one pass:
\* RandomSampler when shuffle, SequentialSampler otherwise.
SamplerOrders(n, shuffle) == IF shuffle THEN Perms(n) ELSE {Range(n)}

\* Variant: drop_last = True.
NumBatchesDropLast(n, b) == n \div b

\* BatchSampler with drop_last = False (the default): number of batches
NumBatches(n, b) == (n + b - 1) \div b

\* BatchSampler: the positions of batch k (k = 0, 1, ...)
BatchAt(ord, b, k) == Slice(ord, k * b, Min((k + 1) * b, Len(ord)))

\* First element of rows (1-based) whose __getitem__ raises, or 0.
FirstBad(ds, fs, rows) ==
    IF \E i \in 1..Len(rows) : ItemError(ds, fs, rows[i]) # NoErr
    THEN CHOOSE i \in 1..Len(rows) :
            /\ ItemError(ds, fs, rows[i]) # NoErr
            /\ \A j \in 1..(i - 1) : ItemError(ds, fs, rows[j]) = NoErr
    ELSE 0

\* _MapDatasetFetcher.fetch: [dataset[i] for i in batch], then collate.
\* A failing __getitem__ ends the comprehension; nothing is collated.
Fetch(ds, fs, ind, positions) ==
    LET rows == [i \in 1..Len(positions) |-> SubsetGet(ind, positions[i])]
        bad == FirstBad(ds, fs, rows)
    IN  IF bad = 0
        THEN [ok |-> TRUE, rows |-> rows, err |-> NoErr, called |-> rows]
        ELSE [ok |-> FALSE, rows |-> <<>>, err |-> ItemError(ds, fs, rows[bad]),
              called |-> SubSeq(rows, 1, bad)]

\* The call counts after __getitem__ was called for each element of rows.
Called(g, rows) ==
    [r \in DOMAIN g |-> g[r] + Cardinality({i \in 1..Len(rows) : rows[i] = r})]

TheDataset == PolypDatasetInit(manifest, nrows)
TotalBatches == NumBatches(Len(order), batch_size)
FetchOf(p, ord, k) ==
    Fetch(TheDataset, files, Indices(p), BatchAt(ord, batch_size, k))
FetchBatch(k) == FetchOf(part, order, k)

\* Worker that batch number k is sent to (round robin over the workers)
WorkerOf(k, w) == (k % w) + 1

\* _MultiProcessingDataLoaderIter._reset: prefetch_factor * num_workers
\* batches are handed out before the first __next__.
Prefetched(nb, w) == Min(PrefetchFactor * w, nb)

\* Variant: results handed to the caller in the order they arrive.
InTurnAlways(idx, rcvd) == TRUE

\* `if idx != self._rcvd_idx` of _next_data: a result is handed to the
\* caller only when it is the one whose turn it is.
InTurn(idx, rcvd) == idx = rcvd

\* iter(loader): a new pass over partition p.
iter_start(p) ==
    /\ pc = "returned"
    /\ itstate # "running"
    /\ passes < MaxPasses
    /\ \E ord \in SamplerOrders(Len(Indices(p)), Shuffle(p)) :
        LET nb == NumBatches(Len(ord), batch_size)
            k == IF num_workers > 0 THEN Prefetched(nb, num_workers) ELSE 0
        IN  /\ order' = ord
            /\ send_idx' = k
            /\ tasks_outstanding' = k
            /\ index_queues' =
                 [w \in 1..num_workers |->
                    LET mine == {j \in 0..(k - 1) : WorkerOf(j, num_workers) = w}
                    IN  [i \in 1..Cardinality(mine) |->
                           (w - 1) + (i - 1) * num_workers]]
    /\ part' = p
    /\ itstate' = "running"
    /\ iterr' = NoErr
    /\ rcvd_idx' = 0
    /\ data_queue' = <<>>
    /\ task_info' = {}
    /\ out' = <<>>
    /\ passes' = passes + 1
    /\ gets' = [r \in DOMAIN gets |-> 0]
    /\ UNCHANGED <<inputs, pc, err, locals, sample>>

\* One worker takes the next batch number of its queue, fetches the batch
\* and puts the result (or the wrapped exception) on the data queue.
worker_step(w) ==
    /\ itstate = "running"
    /\ w \in 1..num_workers
    /\ index_queues[w] # <<>>
    /\ LET k == Head(index_queues[w])
           r == FetchBatch(k)
       IN  /\ data_queue' = Append(data_queue,
                                   [idx |-> k, ok |-> r.ok, rows |-> r.rows, err |-> r.err])
           /\ gets' = Called(gets, r.called)
    /\ index_queues' = [index_queues EXCEPT ![w] = Tail(@)]
    /\ UNCHANGED <<inputs, pc, err, locals, part, itstate, iterr, order, send_idx,
                   rcvd_idx, tasks_outstanding, task_info, out, passes, sample>>

\* __next__ of _SingleProcessDataLoaderIter (num_workers = 0).
next_single ==
    /\ itstate = "running"
    /\ num_workers = 0
    /\ IF send_idx >= TotalBatches
       THEN /\ itstate' = "done"
            /\ UNCHANGED <<iterr, send_idx, rcvd_idx, out, gets>>
       ELSE LET r == FetchBatch(send_idx)
            IN  /\ send_idx' = send_idx + 1
                /\ gets' = Called(gets, r.called)
                /\ IF r.ok
                   THEN /\ out' = Append(out, r.rows)
                        /\ rcvd_idx' = rcvd_idx + 1
                        /\ UNCHANGED <<itstate, iterr>>
                   ELSE /\ itstate' = "raised"
                        /\ iterr' = r.err
                        /\ UNCHANGED <<out, rcvd_idx>>
    /\ UNCHANGED <<inputs, pc, err, locals, part, order, tasks_outstanding,
                   index_queues, data_queue, task_info, passes, sample>>

\* _process_data: count the batch, hand out one more batch number when the
\* prefetch window has room, then return the batch or re-raise.
ProcessData(d, outstanding) ==
    /\ rcvd_idx' = rcvd_idx + 1
    /\ IF outstanding < PrefetchFactor * num_workers /\ send_idx < TotalBatches
       THEN /\ send_idx' = send_idx + 1
            /\ tasks_outstanding' = outstanding + 1
            /\ index_queues' =
                 [index_queues EXCEPT ![WorkerOf(send_idx, num_workers)] = Append(@, send_idx)]
       ELSE /\ tasks_outstanding' = outstanding
            /\ UNCHANGED <<send_idx, index_queues>>
    /\ IF d.ok
       THEN /\ out' = Append(out, d.rows)
            /\ UNCHANGED <<itstate, iterr>>
       ELSE /\ itstate' = "raised"
            /\ iterr' = d.err
            /\ UNCHANGED out

\* __next__ of _MultiProcessingDataLoaderIter (num_workers > 0): results are
\* taken from the data queue until the one in turn arrives; the others are
\* kept in task_info for their own turn.
next_multi ==
    /\ itstate = "running"
    /\ num_workers > 0
    /\ \/ /\ rcvd_idx >= send_idx
          /\ itstate' = "done"
          /\ UNCHANGED <<iterr, send_idx, rcvd_idx, tasks_outstanding, index_queues,
                         data_queue, task_info, out>>
       \/ /\ rcvd_idx < send_idx
          /\ \E d \in task_info :
                /\ InTurn(d.idx, rcvd_idx)
                /\ task_info' = task_info \ {d}
                /\ UNCHANGED data_queue
                /\ ProcessData(d, tasks_outstanding)
       \/ /\ rcvd_idx < send_idx
          /\ ~\E d \in task_info : InTurn(d.idx, rcvd_idx)
          /\ \E j \in 1..Len(data_queue) :
                /\ InTurn(data_queue[j].idx, rcvd_idx)
                /\ \A i \in 1..(j - 1) : ~InTurn(data_queue[i].idx, rcvd_idx)
                /\ task_info' = task_info \cup {data_queue[i] : i \in 1..(j - 1)}
                /\ data_queue' = SubSeq(data_queue, j + 1, Len(data_queue))
                /\ ProcessData(data_queue[j], tasks_outstanding - j)
    /\ UNCHANGED <<inputs, pc, err, locals, part, order, passes, gets, sample>>

\* PolypDataset(annotations_file)[index]: __getitem__ on a dataset built
\* directly. It needs only that __init__ succeeded (the manifest was read);
\* it does not depend on get_data_loaders having been called or returned.
getitem(index) ==
    /\ TheDataset.ok
    /\ index \in 0..(nrows - 1)
    /\ LET e == ItemError(TheDataset, files, index)
           v == ItemValue(img_file, msk_file, img_tf, mask_tf)
       IN  sample' = IF e # NoErr
                     THEN [ok |-> FALSE, err |-> e, image |-> <<>>, mask |-> <<>>]
                     ELSE [ok |-> TRUE, err |-> NoErr, image |-> v.image, mask |-> v.mask]
    /\ UNCHANGED <<inputs, pc, err, locals, itvars, gets>>

\* ------------------------------------------------------------------ inputs
RECURSIVE SubsetsUpTo(_, _)
SubsetsUpTo(S, k) ==
    IF k = 0 THEN {{}}
    ELSE LET smaller == SubsetsUpTo(S, k - 1)
         IN  smaller \cup {s \cup {x} : s \in smaller, x \in S}

\* Filesystems in which at most k rows of an n-row manifest lack a file.
FileStates(n, k) ==
    UNION {{[i \in 0..(n - 1) |-> IF i \in M THEN g[i] ELSE "both"] :
                g \in [M -> {"noimg", "nomask"}]} :
           M \in SubsetsUpTo(0..(n - 1), k)}

\* Everything but the inputs, before get_data_loaders is called.
InitRest ==
    /\ pc = "start"
    /\ err = NoErr
    /\ size_dataset = -1
    /\ split1 = -1
    /\ split2 = -1
    /\ train_indices = <<>>
    /\ val_indices = <<>>
    /\ test_indices = <<>>
    /\ part = "none"
    /\ itstate = "idle"
    /\ iterr = NoErr
    /\ order = <<>>
    /\ send_idx = 0
    /\ rcvd_idx = 0
    /\ tasks_outstanding = 0
    /\ index_queues = <<>>
    /\ data_queue = <<>>
    /\ task_info = {}
    /\ out = <<>>
    /\ passes = 0
    /\ gets = [r \in 0..(nrows - 1) |-> 0]
    /\ sample = NoSample

NoTransforms ==
    /\ img_tf = "None"
    /\ mask_tf = "None"
    /\ img_file = <<0, 0, 0>>
    /\ msk_file = 0

\* Workers, missing files and malformed manifests; sequential views.
Init ==
    /\ manifest \in {"ok", "onecol", "missing", "empty"}
    /\ nrows \in IF manifest \in {"missing", "empty"} THEN {0} ELSE 0..MaxRows
    /\ files \in IF manifest = "ok" THEN FileStates(nrows, MaxMissing)
                 ELSE FileStates(nrows, 0)
    /\ batch_size \in 0..MaxBatch
    /\ num_workers \in -1..MaxWorkers
    /\ NoTransforms
    /\ InitRest
Next ==
    \/ get_data_loaders
    \/ iter_start("valid")
    \/ iter_start("test")
    \/ \E w \in 1..MaxWorkers : worker_step(w)
    \/ next_single
    \/ next_multi
Spec == Init /\ [][Next]_vars

\* Large manifests, every file present, fetching in the caller's thread.
InitSeq ==
    /\ manifest = "ok"
    /\ nrows \in 0..MaxSeqRows
    /\ files \in FileStates(nrows, 0)
    /\ batch_size \in 0..MaxSeqBatch
    /\ num_workers \in {-1, 0}
    /\ NoTransforms
    /\ InitRest
NextSeq ==
    \/ get_data_loaders
    \/ iter_start("valid")
    \/ iter_start("test")
    \/ next_single
SpecSeq == InitSeq /\ [][NextSeq]_vars

\* Small manifests, every file present, passes over the shuffled train view.
InitShuffle ==
    /\ manifest = "ok"
    /\ nrows \in 0..MaxShuffleRows
    /\ files \in FileStates(nrows, 0)
    /\ batch_size \in 1..MaxBatch
    /\ num_workers \in 0..MaxWorkers
    /\ NoTransforms
    /\ InitRest
NextShuffle ==
    \/ get_data_loaders
    \/ iter_start("train")
    \/ \E w \in 1..MaxWorkers : worker_step(w)
    \/ next_single
    \/ next_multi
SpecShuffle == InitShuffle /\ [][NextShuffle]_vars

\* Tensor values: pixels, transforms and every state of a row's two files.
Pixels == {0, 102, 255}
Transforms == {"None", "Identity", "Normalize"}
InitItem ==
    /\ manifest \in {"ok", "onecol", "missing", "empty"}
    /\ nrows \in IF manifest \in {"missing", "empty"} THEN {0} ELSE 0..MaxItemRows
    /\ files \in [0..(nrows - 1) -> {"both", "noimg", "nomask", "neither"}]
    /\ batch_size = 1
    /\ num_workers = 0
    /\ img_tf \in Transforms
    /\ mask_tf \in Transforms
    /\ img_file \in [1..3 -> Pixels]
    /\ msk_file \in Pixels
    /\ InitRest
NextItem ==
    \/ get_data_loaders
    \/ \E i \in 0..MaxItemRows : getitem(i)
SpecItem == InitItem /\ [][NextItem]_vars

\* ------------------------------------------------------------------ claims
RECURSIVE Flatten(_)
Flatten(batches) ==
    IF batches = <<>> THEN <<>> ELSE Head(batches) \o Flatten(Tail(batches))

IsPrefix(a, b) == Len(a) <= Len(b) /\ a = SubSeq(b, 1, Len(a))
SeqRange(q) == {q[i] : i \in 1..Len(q)}
Interval(lo, hi) == [i \in 1..(hi - lo) |-> lo + i - 1]
RatEq(x, y) == x[1] * y[2] = y[1] * x[2]
ConfigValid == batch_size >= 1 /\ num_workers >= 0
SomeMissing == \E r \in DOMAIN files : files[r] # "both"
NothingFetched == itstate = "idle" /\ \A r \in DOMAIN gets : gets[r] = 0

\* C1: once the index is built, split1 = floor(0.8 N) and split2 = floor(0.9 N),
\* train = [0, split1), valid = [split1, split2), test = [split2, N): the three
\* views are contiguous, in that order, disjoint, cover 0..N-1, and their
\* sizes are split1, split2 - split1 and N - split2, which sum to N.
C1_Split ==
    (pc # "start" /\ size_dataset >= 0) =>
        /\ size_dataset = nrows
        /\ 10 * split1 <= 8 * nrows /\ 8 * nrows < 10 * (split1 + 1)
        /\ 10 * split2 <= 9 * nrows /\ 9 * nrows < 10 * (split2 + 1)
        /\ train_indices = Interval(0, split1)
        /\ val_indices = Interval(split1, split2)
        /\ test_indices = Interval(split2, nrows)
        /\ train_indices \o val_indices \o test_indices = Interval(0, nrows)
        /\ SeqRange(train_indices) \cap SeqRange(val_indices) = {}
        /\ SeqRange(train_indices) \cap SeqRange(test_indices) = {}
        /\ SeqRange(val_indices) \cap SeqRange(test_indices) = {}
        /\ Len(train_indices) = split1
        /\ Len(val_indices) = split2 - split1
        /\ Len(test_indices) = nrows - split2
        /\ Len(train_indices) + Len(val_indices) + Len(test_indices) = nrows

C1_Witness ==
    /\ pc = "returned"
    /\ nrows = 9
    /\ train_indices = <<0, 1, 2, 3, 4, 5, 6>>
    /\ val_indices = <<7>>
    /\ test_indices = <<8>>

\* C2: a completed pass over a view of n samples with batch_size b >= 1 has
\* yielded exactly ceil(n / b) batches, in the sampler's order; each but the
\* last holds b samples, the last holds n - b (ceil(n / b) - 1), none is empty.
C2_Batches ==
    (itstate = "done" /\ batch_size >= 1) =>
        LET n == Len(Indices(part))
            b == batch_size
            m == Len(out)
        IN  /\ m * b >= n
            /\ m > 0 => (m - 1) * b < n
            /\ \A k \in 1..(m - 1) : Len(out[k]) = b
            /\ m > 0 => Len(out[m]) = n - b * (m - 1)
            /\ \A k \in 1..m : Len(out[k]) >= 1
            /\ Flatten(out) = [i \in 1..n |-> Indices(part)[order[i] + 1]]

C2_Witness ==
    /\ itstate = "done"
    /\ Len(Indices(part)) = 10
    /\ batch_size = 4
    /\ Len(out) = 3
    /\ <<Len(out[1]), Len(out[2]), Len(out[3])>> = <<4, 4, 2>>

\* C3: every pass over the valid loader or the test loader yields the rows of
\* its view in manifest order (split1, split1 + 1, ... for valid; split2, ...,
\* N - 1 for test), starting from the first row of the view: what a pass has
\* yielded so far is a prefix of that sequence and a completed pass is all of
\* it, so any two passes agree.
C3_Sequential ==
    (part \in {"valid", "test"} /\ itstate # "idle") =>
        LET lo == IF part = "valid" THEN split1 ELSE split2
            hi == IF part = "valid" THEN split2 ELSE nrows
        IN  /\ IsPrefix(Flatten(out), Interval(lo, hi))
            /\ itstate = "done" => Flatten(out) = Interval(lo, hi)

C3_Witness ==
    /\ passes = 2
    /\ part = "valid"
    /\ itstate = "done"
    /\ Len(out) >= 2
    /\ Flatten(out) = Interval(split1, split2)

\* C4: every completed pass over the train loader has yielded exactly the
\* rows 0 .. split1 - 1, each once, and no row of the valid or test range.
C4_TrainSet ==
    (part = "train" /\ itstate = "done") =>
        LET f == Flatten(out)
        IN  /\ Len(f) = split1
            /\ SeqRange(f) = 0..(split1 - 1)
            /\ \A i, j \in 1..Len(f) : f[i] = f[j] => i = j

C4_Witness ==
    /\ passes = 2
    /\ part = "train"
    /\ itstate = "done"
    /\ num_workers > 0
    /\ split1 >= 3
    /\ Flatten(out) # train_indices

\* What a pass over view p yields when fetching in the caller's thread
\* (num_workers = 0): the batches before the first failing one, and how it ends.
SequentialPass(p) ==
    LET ord == Range(Len(Indices(p)))
        nb == NumBatches(Len(ord), batch_size)
        failing == {k \in 0..(nb - 1) : ~FetchOf(p, ord, k).ok}
        stop == IF failing = {} THEN nb
                ELSE CHOOSE k \in failing : \A j \in failing : k <= j
    IN  [out |-> [k \in 1..stop |-> FetchOf(p, ord, k - 1).rows],
         end |-> IF stop = nb THEN "done" ELSE "raised",
         err |-> IF stop = nb THEN NoErr ELSE FetchOf(p, ord, stop).err]

\* C5: over the valid or test view, whatever num_workers >= 0 is and however
\* the workers interleave, the batches handed to the caller are, one for one
\* and in order, those of the num_workers = 0 pass, and the pass ends the
\* same way.
C5_WorkersSameAsSequential ==
    (part \in {"valid", "test"} /\ itstate # "idle") =>
        LET ref == SequentialPass(part)
        IN  /\ IsPrefix(out, ref.out)
            /\ itstate \in {"done", "raised"} =>
                  /\ out = ref.out
                  /\ itstate = ref.end
                  /\ iterr = ref.err

C5_Witness ==
    /\ num_workers > 1
    /\ part = "test"
    /\ itstate = "running"
    /\ Len(out) >= 1
    /\ task_info # {}

\* C6: a manifest row naming a missing file never stops get_data_loaders from
\* building the index and the loaders; the pass that reaches the row raises
\* FileNotFoundError, having yielded exactly the batches before the row's batch
\* and fetched the row once.
C6_Original ==
    /\ (pc # "start" /\ manifest = "ok" /\ ConfigValid /\ SomeMissing) => pc = "returned"
    /\ (manifest = "ok" /\ itstate = "raised") =>
          /\ iterr.type = "FileNotFoundError"
          /\ \E r \in SeqRange(Indices(part)) :
                /\ files[r] # "both"
                /\ gets[r] = 1
                /\ r \notin SeqRange(Flatten(out))
                /\ Flatten(out) = SubSeq(Indices(part), 1, Len(Flatten(out)))
                /\ Len(Flatten(out)) = Len(out) * batch_size
    /\ (manifest = "ok" /\ itstate = "done") =>
          \A r \in SeqRange(Indices(part)) : files[r] = "both"

\* C7: for every N < 10 and a valid batch_size and num_workers,
\* get_data_loaders returns the three loaders, and a completed pass over an
\* empty view has yielded no batch.
C7_Original ==
    /\ (pc # "start" /\ manifest = "ok" /\ nrows < 10 /\ ConfigValid) => pc = "returned"
    /\ (itstate = "done" /\ Indices(part) = <<>>) => out = <<>>

\* C8: a manifest that is missing, unreadable or has fewer than two columns
\* makes get_data_loaders raise; it never returns loaders and no pass ever
\* raises because of the manifest.
C8_Original ==
    /\ (pc # "start" /\ manifest # "ok") => pc = "raised"
    /\ iterr.type # "IndexError"

\* C9: with batch_size < 1 or num_workers < 0 get_data_loaders raises
\* ValueError before any loader is returned or sample fetched; with
\* batch_size >= 1 and num_workers >= 0 it raises no ValueError.
C9_Original ==
    (pc # "start" /\ manifest = "ok") =>
        /\ ~ConfigValid => (pc = "raised" /\ err.type = "ValueError" /\ NothingFetched)
        /\ ConfigValid => ~(pc = "raised" /\ err.type = "ValueError")

\* C10: with no transform configured, the image returned by dataset[index] is
\* image_normalize of the decoded, RGB-ordered, 255-scaled pixel and the mask
\* is mask_normalize of the decoded, 255-scaled mask pixel.
C10_Original ==
    (sample.ok /\ img_tf = "None" /\ mask_tf = "None") =>
        /\ \A c \in 1..3 :
              RatEq(sample.image[c], image_normalize(c, ToFloat(BGR2RGB(img_file)[c])))
        /\ RatEq(sample.mask[1], mask_normalize(ToFloat(msk_file)))

====
